---------------------------- MODULE Spec2Model ----------------------------
(***************************************************************************)
(* The deregistration Lambda handler of bbb-cdk                            *)
(* (src/lambda-handlers/deregister-bbb-server.ts, here                     *)
(* src/unnamed/part_001) as a state machine.  One step of an invocation is *)
(* the code that runs between two awaits: the action named XReturns takes  *)
(* the answer of the pending external call X, runs the handler up to the   *)
(* next await and issues the next external call.                           *)
(*                                                                         *)
(* JavaScript values: every falsy string-like value (undefined, null, "")  *)
(* is written "", since the handler only tests them with `!x`.             *)
(***************************************************************************)
EXTENDS Naturals, Sequences, FiniteSets, TLC

\* ------------------------------------------------------------- bounds
\* Longest registry membership list considered.
MaxServers == 2
\* Number of times the handler is invoked (SNS delivers at least once).
MaxDeliveries == 2
\* Largest number of query parameters given to getSortedQueryString.
MaxParams == 2

\* ------------------------------------------------------------- values
\* Names of handler invocations that may be in flight at the same time.
Invocations == {"a", "b"}

InstanceIds == {"i-1", "i-2"}

\* The compute inventory: PrivateDnsName of each instance.
PrivateDnsNameOf(instanceId) ==
    IF instanceId = "i-1" THEN "node-1.internal" ELSE "node-2.internal"

\* `http://${privateDnsName}/bigbluebutton/api`
BbbServerApiUrl(privateDnsName) ==
    "http://" \o privateDnsName \o "/bigbluebutton/api"

\* Urls under which a server may be registered in Scalelite: the exact
\* url of each instance, and near misses of the first one (trailing slash,
\* different case).
RegistryUrls ==
    { BbbServerApiUrl(PrivateDnsNameOf(i)) : i \in InstanceIds }
      \cup { BbbServerApiUrl("node-1.internal") \o "/",
             BbbServerApiUrl("NODE-1.internal") }

\* Values of ScaleliteServer.id in a getServers answer ("" is an empty or
\* missing id).
ServerIds == {"", "42", "43"}

ScaleliteServer == [id : ServerIds, url : RegistryUrls]

RECURSIVE SeqsUpTo(_, _)
SeqsUpTo(S, n) ==
    IF n = 0 THEN { <<>> }
    ELSE LET shorter == SeqsUpTo(S, n - 1)
         IN  shorter \cup { Append(s, x) : s \in shorter, x \in S }

IdsOf(servers) == { servers[k].id : k \in DOMAIN servers }

\* Scalelite keys its servers by id: no two entries share one.
DistinctIds(servers) ==
    \A j, k \in DOMAIN servers : servers[j].id = servers[k].id => j = k

Registries == { s \in SeqsUpTo(ScaleliteServer, MaxServers) : DistinctIds(s) }

\* ------------------------------------------------------------- events
\* The SNS event given to the handler.  kind:
\*   noMessage  event.Records[0].Sns.Message is absent
\*   badJson    the message is not JSON
\*   null       the message is the JSON text null
\*   primitive  the message is a JSON number, string or boolean
\*   object     the message is a JSON object with the three fields
\*              (each possibly missing or empty)
NoFields == [EC2InstanceId |-> "", LifecycleHookName |-> "",
             AutoScalingGroupName |-> ""]

Events ==
    { [kind |-> k, msg |-> NoFields] :
          k \in {"noMessage", "badJson", "null", "primitive"} }
    \cup
    { [kind |-> "object",
       msg  |-> [EC2InstanceId |-> i, LifecycleHookName |-> h,
                 AutoScalingGroupName |-> g]] :
          i \in InstanceIds \cup {""}, h \in {"H", ""}, g \in {"G", ""} }

\* ------------------------------------------------------------- answers
\* GetSecretValue: the call throws; the answer has no SecretString; the
\* SecretString is not JSON; it is JSON without a (non-empty) secret key;
\* it is {"secret": "abc"}.
SecretAnswers == {"throws", "noSecretString", "notJson", "noKey", "ok"}

\* DescribeInstances: the call throws; Reservations is missing or empty;
\* Reservations[0].Instances is missing or empty; the instance has no
\* PrivateDnsName; the instance is found.
DescribeAnswers == {"throws", "noReservations", "noInstances",
                    "noDnsName", "found"}

\* httpClient.get(getServersUrl): no answer (network error, timeout); a
\* status outside 2xx; a 2xx status other than 200; 200 with a null body;
\* 200 with status other than "ok"; 200 and "ok" without servers; 200 and
\* "ok" with the servers list.
GetServersAnswers == {"networkError", "http500", "http204", "nullBody",
                      "statusError", "noServers", "ok"}

\* httpClient.post(deleteUrl): no answer; 404; another status outside 2xx;
\* 200 with a null body; 200 with {status: "ok"}; 200 with a string body
\* holding <returncode>SUCCESS</returncode>; 200 with any other body.
DeleteAnswers == {"networkError", "http404", "http500", "nullBody",
                  "jsonOk", "legacySuccess", "otherBody"}

\* asClient.send(CompleteLifecycleAction)
CompleteAnswers == {"ok", "throws"}

\* axios rejects the promise when there is no answer or the status is
\* outside 2xx (its default validateStatus).
AxiosThrows(answer) == answer \in {"networkError", "http404", "http500"}


\* Number of times the external call `name` was issued.
Count(calls, name) == Cardinality({ k \in DOMAIN calls : calls[k] = name })

\* ------------------------------------------------------------- request signing
\* Keys and values of the query parameters considered.  A queryParams
\* object is the sequence of its [key, value] properties in insertion
\* order, no key twice.
ParamKeys == {"B", "a", "ab", "b"}

ParamValues == {"1", "x y", "a&b"}

\* Array.prototype.sort() without a comparator orders strings by their
\* UTF-16 code units: upper case before lower case, a prefix before its
\* extensions.  KeyOrder lists ParamKeys in that order.
KeyOrder == <<"B", "a", "ab", "b">>

KeyRank(key) == CHOOSE n \in DOMAIN KeyOrder : KeyOrder[n] = key

\* Object.keys(queryParams)
ObjectKeys(queryParams) ==
    [k \in DOMAIN queryParams |-> queryParams[k].key]

\* queryParams[key]
ValueOf(queryParams, key) ==
    queryParams[CHOOSE k \in DOMAIN queryParams :
                    queryParams[k].key = key].value

RECURSIVE InsertKey(_, _)
InsertKey(sorted, key) ==
    IF sorted = <<>> THEN <<key>>
    ELSE IF KeyRank(key) <= KeyRank(Head(sorted))
         THEN <<key>> \o sorted
         ELSE <<Head(sorted)>> \o InsertKey(Tail(sorted), key)

\* SortKeys that leaves the keys in insertion order.
SortKeysInsertionOrder(keys) == keys

\* Line 63: Object.keys(queryParams).sort()
RECURSIVE SortKeys(_)
SortKeys(keys) ==
    IF keys = <<>> THEN <<>>
    ELSE InsertKey(SortKeys(Tail(keys)), Head(keys))

\* The application/x-www-form-urlencoded serializer of URLSearchParams: a
\* space becomes "+", "&" becomes "%26"; letters and digits stay.
FormEncode(s) ==
    IF s = "x y" THEN "x+y"
    ELSE IF s = "a&b" THEN "a%26b"
    ELSE s

\* Line 66: params.toString() joins name=value pairs with "&".
RECURSIVE Serialize(_, _)
Serialize(queryParams, keys) ==
    IF keys = <<>> THEN ""
    ELSE LET pair == FormEncode(Head(keys)) \o "="
                         \o FormEncode(ValueOf(queryParams, Head(keys)))
         IN  IF Tail(keys) = <<>> THEN pair
             ELSE pair \o "&" \o Serialize(queryParams, Tail(keys))

\* Lines 56-67.
GetSortedQueryString(queryParams) ==
    IF Len(ObjectKeys(queryParams)) = 0 THEN ""
    ELSE Serialize(queryParams, SortKeys(ObjectKeys(queryParams)))

\* createHash('sha1').update(s).digest('hex'): the digest is written as
\* its input under a tag, so equal digests are equal inputs.
Sha1Hex(stringToHash) == "sha1(" \o stringToHash \o ")"

\* CalculateChecksum with the secret put in front of the action.
CalculateChecksumSecretFirst(action, queryParamsString, requestBodyString, sharedSecret) ==
    Sha1Hex(sharedSecret \o action \o queryParamsString
                \o requestBodyString)

\* Lines 69-73.
CalculateChecksum(action, queryParamsString, requestBodyString, sharedSecret) ==
    Sha1Hex(action \o queryParamsString \o requestBodyString
                \o sharedSecret)

\* Lines 53-54.
GET_SERVERS_ACTION == "getServers"

DELETE_SERVER_ACTION == "deleteServer"

\* Line 171: JSON.stringify({ id: scaleliteInternalServerId })
DeleteBodyString(id) == "{\"id\":\"" \o id \o "\"}"

\* ------------------------------------------------------------- handler logic
\* Lines 79-84: reading event.Records[0].Sns.Message, JSON.parse and the
\* three property reads all run before the try block; each of them throws
\* on these events.
ParseThrows(event) == event.kind \in {"noMessage", "badJson", "null"}

\* NotificationValid without the AutoScalingGroupName test of line 93.
NotificationValidNoGroupCheck(msg) ==
    /\ msg.EC2InstanceId # ""
    /\ msg.LifecycleHookName # ""

\* Lines 89-96: the notification carries the three fields.
NotificationValid(msg) ==
    /\ msg.EC2InstanceId # ""
    /\ msg.LifecycleHookName # ""
    /\ msg.AutoScalingGroupName # ""

\* SecretUsable without the check of lines 108-111 for the secret key.
SecretUsableNoKeyCheck(answer) == answer \in {"ok", "noKey"}

\* Lines 101-111: the secret fetch gives a usable shared secret (the call
\* did not throw, SecretString is there, parses, and has a secret key).
SecretUsable(answer) == answer = "ok"

\* InstanceResolved without the PrivateDnsName check of lines 125-128.
InstanceResolvedNoDnsCheck(answer) == answer \in {"found", "noDnsName"}

\* Lines 117-128: the inventory answer names the instance's PrivateDnsName.
InstanceResolved(answer) == answer = "found"

\* GetServersUsable with a missing servers field taken for an empty list.
GetServersUsableMissingAsEmpty(answer) == answer \in {"ok", "noServers"}

\* GetServersUsable without the test of data.status at line 150.
GetServersUsableAnyStatus(answer) == answer \in {"ok", "statusError"}

\* Lines 147-153: getServers did not throw and answered 200, status "ok",
\* with a servers list.
GetServersUsable(answer) == answer = "ok"

\* FindServerId with a comparison that ignores a trailing slash and the
\* case of the host.
LooseUrl(url) ==
    IF url \in { BbbServerApiUrl("node-1.internal") \o "/",
                 BbbServerApiUrl("NODE-1.internal") }
    THEN BbbServerApiUrl("node-1.internal")
    ELSE url

FindServerIdLooseUrl(servers, url) ==
    LET hits == { k \in DOMAIN servers : LooseUrl(servers[k].url) = url }
    IN  IF hits = {} THEN ""
        ELSE servers[CHOOSE k \in hits : \A j \in hits : k <= j].id

\* FindServerId without the url comparison of line 157.
FindServerIdAnyUrl(servers, url) ==
    IF servers = <<>> THEN "" ELSE servers[1].id

\* Lines 155-162: the id of the first listed server whose url equals
\* bbbServerApiUrl, or "" (null) when there is none.
FindServerId(servers, url) ==
    LET hits == { k \in DOMAIN servers : servers[k].url = url }
    IN  IF hits = {} THEN ""
        ELSE servers[CHOOSE k \in hits : \A j \in hits : k <= j].id

\* The listed servers whose url equals bbbServerApiUrl, in listing order
\* (line 157 applied to every entry of getServersResponse.data.servers).
Matching(servers, url) == SelectSeq(servers, LAMBDA s : s.url = url)

\* Lines 187-190: the post throws (axios rejects), or reading data.status
\* of a null body throws inside the inner try.
DeleteThrows(answer) == AxiosThrows(answer) \/ answer = "nullBody"

\* ResultAfterDelete with every answer that did not throw taken for success.
ResultAfterDeleteAnyBody(result, answer) == "CONTINUE"

\* ResultAfterDelete without the legacy branch of lines 196-199.
ResultAfterDeleteJsonOnly(result, answer) ==
    IF answer = "jsonOk" THEN "CONTINUE" ELSE result

\* Lines 193-203: the result after an answer that did not throw.
ResultAfterDelete(result, answer) ==
    IF answer \in {"jsonOk", "legacySuccess"} THEN "CONTINUE" ELSE result

\* DeleteErrorIs404 with every error rethrown.
DeleteErrorNever404(answer) == FALSE

\* Line 205: axios.isAxiosError(deleteError) && response.status === 404.
DeleteErrorIs404(answer) == answer = "http404"

\* ResultAfterCatch with a catch block that lets the termination proceed.
ResultAfterCatchContinue(result) == "CONTINUE"

\* Lines 217-219: the outer catch logs and leaves the result as it is.
ResultAfterCatch(result) == result

\* ------------------------------------------------------------- state
VARIABLES
    registry,    \* Scalelite's membership: a list of ScaleliteServer
    inv,         \* per invocation: the handler's locals and its call history
    hook,        \* per instance in Terminating:Wait: its lifecycle hook
    secretStore, \* the value of the secret key held by Secrets Manager
    container,   \* the execution environment: process.env and the module
    signer,      \* a call of the two signing functions and its results
    stack        \* a run of the BbbClusterStack constructor

vars == <<registry, inv, hook, secretStore, container, signer, stack>>

\* What no step of the handler reads or writes after the module is loaded.
elsewhere == <<container, signer, stack>>

NoCompletion == [LifecycleHookName |-> "", AutoScalingGroupName |-> "",
                 LifecycleActionResult |-> "", InstanceId |-> ""]

NoEvent == [kind |-> "none", msg |-> NoFields]

\* The locals of one invocation.  The servers list of the getServers answer
\* is dead after the match loop (lines 156-162); what is remembered of it is
\* `matches`, its entries whose url equals bbbServerApiUrl.
\* `after` names the invocations that had returned when this one began.
\* pc: idle | secret | describe | getServers | deleteServer | complete
\*     (the external call awaited) | returned | rejected (the promise of
\*     handler resolved | rejected) | killed (ended by the runtime).
IdleLocals ==
    [pc |-> "idle", deliveries |-> 0, event |-> NoEvent,
     instanceId |-> "", lifecycleHookName |-> "", autoScalingGroupName |-> "",
     lifecycleActionResult |-> "", sharedSecret |-> "",
     bbbServerApiUrl |-> "", matches |-> <<>>,
     scaleliteInternalServerId |-> "",
     calls |-> <<>>, deleteBody |-> "", completion |-> NoCompletion,
     getServersChecksum |-> "", deleteChecksum |-> "",
     secretAnswer |-> "", describeAnswer |-> "", getServersAnswer |-> "",
     deleteAnswer |-> "", completeAnswer |-> "",
     interfered |-> FALSE, after |-> {}]

InFlight(l) == l.pc \notin {"idle", "returned", "rejected", "killed"}

\* asg.addLifecycleHook('TerminateHook'): the hook of an instance waits
\* until a CompleteLifecycleAction call is accepted for it or its heartbeat
\* timeout elapses.
WaitingHook == [state |-> "wait", result |-> "", by |-> ""]

\* The hook's defaultResult with the line that sets it left out: the
\* default of the construct.
HookDefaultResultUnset == "CONTINUE"

\* defaultResult: autoscaling.DefaultResult.ABANDON
HookDefaultResult == "ABANDON"

\* The secret key's value when the stack is deployed, and after a rotation.
InitialSecret == "abc"

RotatedSecret == "xyz"

\* process.env: a variable is unset, set to the empty string, or set.
EnvValues == {"unset", "", "value"}

Environments ==
    [SCALELITE_API_BASE_URL : EnvValues, SHARED_SECRET_ARN : EnvValues,
     AWS_REGION : EnvValues]

\* The environment the stack gives the function.
DeployedEnv ==
    [SCALELITE_API_BASE_URL |-> "value", SHARED_SECRET_ARN |-> "value",
     AWS_REGION |-> "value"]

\* !x of a string or undefined
Falsy(x) == x \in {"unset", ""}

\* EnvComplete without the test of AWS_REGION.
EnvCompleteNoRegion(env) ==
    ~(Falsy(env.SCALELITE_API_BASE_URL) \/ Falsy(env.SHARED_SECRET_ARN))

\* Line 35: none of the three variables is missing or empty.
EnvComplete(env) ==
    ~(Falsy(env.SCALELITE_API_BASE_URL) \/ Falsy(env.SHARED_SECRET_ARN)
        \/ Falsy(env.AWS_REGION))

\* An execution environment whose module has been loaded.
LoadedContainer == [env |-> DeployedEnv, state |-> "loaded"]

\* No call of the signing functions is followed.
NoSigning ==
    [queryParams |-> <<>>, action |-> "", body |-> "", secret |-> "",
     query |-> "", checksum |-> "", done |-> FALSE]

\* No run of the stack's constructor is followed.
NoStack ==
    [props |-> [useSpotInstances |-> "undefined", keyName |-> "",
                bbbInstanceType |-> "", sshAllowedCidr |-> ""],
     step |-> 0, resources |-> <<>>, instanceMarketOptions |-> ""]

\* The handler alone: the module is loaded, the secret is not rotated.
Alone ==
    /\ secretStore = InitialSecret
    /\ container = LoadedContainer
    /\ signer = NoSigning
    /\ stack = NoStack

\* The single run of Spec: no lifecycle hook is followed.
Init ==
    /\ registry \in Registries
    /\ inv = [i \in {"a"} |-> IdleLocals]
    /\ hook = [x \in {} |-> WaitingHook]
    /\ Alone

\* EnterFinally with the hook name and the group name exchanged.
EnterFinallySwapped(l) ==
    [l EXCEPT !.pc = "complete",
              !.calls = Append(@, "CompleteLifecycleAction"),
              !.completion =
                  [LifecycleHookName     |-> l.autoScalingGroupName,
                   AutoScalingGroupName  |-> l.lifecycleHookName,
                   LifecycleActionResult |-> l.lifecycleActionResult,
                   InstanceId            |-> l.instanceId]]

\* Lines 220-230: the finally block builds the completion parameters from
\* the locals and sends CompleteLifecycleAction.
EnterFinally(l) ==
    [l EXCEPT !.pc = "complete",
              !.calls = Append(@, "CompleteLifecycleAction"),
              !.completion =
                  [LifecycleHookName     |-> l.lifecycleHookName,
                   AutoScalingGroupName  |-> l.autoScalingGroupName,
                   LifecycleActionResult |-> l.lifecycleActionResult,
                   InstanceId            |-> l.instanceId]]

\* Lines 217-230: an exception thrown inside the try block.
Caught(l) ==
    EnterFinally([l EXCEPT !.lifecycleActionResult = ResultAfterCatch(@)])

\* Lines 76-101: the handler from its entry to its first await.
HandlerEntry(l, event) ==
    IF ParseThrows(event)
    THEN [l EXCEPT !.pc = "rejected"]
    ELSE LET parsed == [l EXCEPT
                 !.instanceId = event.msg.EC2InstanceId,
                 !.lifecycleHookName = event.msg.LifecycleHookName,
                 !.autoScalingGroupName = event.msg.AutoScalingGroupName,
                 !.lifecycleActionResult = "ABANDON"]
         IN  IF NotificationValid(event.msg)
             THEN [parsed EXCEPT !.pc = "secret",
                                 !.calls = Append(@, "GetSecretValue")]
             ELSE Caught(parsed)

\* AfterSecret with a throwing fetch tried again.
AfterSecretRetry(l, answer, secret) ==
    LET got == [l EXCEPT !.secretAnswer = answer]
    IN  IF SecretUsable(answer)
        THEN [got EXCEPT !.sharedSecret = secret,
                         !.pc = "describe",
                         !.calls = Append(@, "DescribeInstances")]
        ELSE IF answer = "throws" /\ Len(l.calls) < 2
        THEN [got EXCEPT !.calls = Append(@, "GetSecretValue")]
        ELSE Caught(got)

\* AfterSecret with the secret read once, when the stack was deployed, and
\* kept for every invocation.
AfterSecretKeptValue(l, answer, secret) ==
    LET got == [l EXCEPT !.secretAnswer = answer]
    IN  IF SecretUsable(answer)
        THEN [got EXCEPT !.sharedSecret = InitialSecret,
                         !.pc = "describe",
                         !.calls = Append(@, "DescribeInstances")]
        ELSE Caught(got)

\* Lines 101-117: from the secret store's answer (secret is the value of
\* the secret key in a usable SecretString) to the inventory lookup.
AfterSecret(l, answer, secret) ==
    LET got == [l EXCEPT !.secretAnswer = answer]
    IN  IF SecretUsable(answer)
        THEN [got EXCEPT !.sharedSecret = secret,
                         !.pc = "describe",
                         !.calls = Append(@, "DescribeInstances")]
        ELSE Caught(got)

\* AfterDescribe with an instance missing from the inventory treated as
\* nothing to clean up.
AfterDescribeNotFoundContinue(l, answer) ==
    LET got == [l EXCEPT !.describeAnswer = answer]
    IN  IF InstanceResolved(answer)
        THEN [got EXCEPT
                 !.bbbServerApiUrl =
                     BbbServerApiUrl(PrivateDnsNameOf(l.instanceId)),
                 !.getServersChecksum =
                     CalculateChecksum(GET_SERVERS_ACTION,
                                       GetSortedQueryString(<<>>), "",
                                       l.sharedSecret),
                 !.pc = "getServers",
                 !.calls = Append(@, "getServers")]
        ELSE IF answer \in {"noReservations", "noInstances"}
        THEN EnterFinally([got EXCEPT !.lifecycleActionResult = "CONTINUE"])
        ELSE Caught(got)

\* Lines 117-147: from the inventory's answer to the getServers call.
AfterDescribe(l, answer) ==
    LET got == [l EXCEPT !.describeAnswer = answer]
    IN  IF InstanceResolved(answer)
        THEN [got EXCEPT
                 !.bbbServerApiUrl =
                     BbbServerApiUrl(PrivateDnsNameOf(l.instanceId)),
                 !.getServersChecksum =
                     CalculateChecksum(GET_SERVERS_ACTION,
                                       GetSortedQueryString(<<>>), "",
                                       l.sharedSecret),
                 !.pc = "getServers",
                 !.calls = Append(@, "getServers")]
        ELSE Caught(got)

\* Lines 147-187: from the getServers answer through the match to the
\* deleteServer call (or to the finally block).
AfterGetServers(l, answer, listed) ==
    LET got == [l EXCEPT !.getServersAnswer = answer]
    IN  IF GetServersUsable(answer)
        THEN LET id == FindServerId(listed, l.bbbServerApiUrl)
                 matched == [got EXCEPT
                                !.matches = Matching(listed, l.bbbServerApiUrl),
                                !.scaleliteInternalServerId = id]
             IN  IF id = ""
                 THEN EnterFinally(
                          [matched EXCEPT !.lifecycleActionResult = "CONTINUE"])
                 ELSE [matched EXCEPT !.pc = "deleteServer",
                                      !.deleteBody = id,
                                      !.deleteChecksum =
                                          CalculateChecksum(
                                              DELETE_SERVER_ACTION,
                                              GetSortedQueryString(<<>>),
                                              DeleteBodyString(id),
                                              l.sharedSecret),
                                      !.calls = Append(@, "deleteServer")]
        ELSE Caught(got)

\* Lines 187-230: from the deleteServer answer to the finally block.
AfterDelete(l, answer) ==
    LET got == [l EXCEPT !.deleteAnswer = answer]
    IN  IF DeleteThrows(answer)
        THEN IF DeleteErrorIs404(answer)
             THEN EnterFinally(
                      [got EXCEPT !.lifecycleActionResult = "CONTINUE"])
             ELSE Caught(got)
        ELSE EnterFinally(
                 [got EXCEPT !.lifecycleActionResult =
                                 ResultAfterDelete(@, answer)])

\* AfterComplete with a failed completion call sent again.
AfterCompleteRetry(l, answer) ==
    IF answer = "throws" /\ Count(l.calls, "CompleteLifecycleAction") < 2
    THEN [l EXCEPT !.completeAnswer = answer,
                   !.calls = Append(@, "CompleteLifecycleAction")]
    ELSE [l EXCEPT !.completeAnswer = answer, !.pc = "returned"]

\* Lines 230-238: the completion call returned or threw; the inner catch
\* logs, and the handler's promise resolves.
AfterComplete(l, answer) ==
    [l EXCEPT !.completeAnswer = answer, !.pc = "returned"]

\* ------------------------------------------------------------- registry
\* The registry without the entry of this id.
Without(servers, id) == SelectSeq(servers, LAMBDA s : s.id # id)

\* Every invocation in flight other than i sees the registry changed by
\* another actor.
Interfere(f, i) ==
    [j \in DOMAIN f |->
        IF j # i /\ InFlight(f[j]) THEN [f[j] EXCEPT !.interfered = TRUE]
        ELSE f[j]]

\* Locals with bbbServerApiUrl kept at module scope: every invocation
\* reads the value another invocation assigned.
LocalsSharedUrl(f, i) ==
    LET others == { j \in DOMAIN f \ {i} : f[j].bbbServerApiUrl # "" }
    IN  IF others = {} \/ f[i].bbbServerApiUrl = "" THEN f[i]
        ELSE [f[i] EXCEPT !.bbbServerApiUrl =
                 f[CHOOSE j \in others : TRUE].bbbServerApiUrl]

\* Lines 76-86 and the const/let declarations of the body: the variables
\* of the handler belong to the call, so a resumed invocation reads its own.
Locals(f, i) == f[i]

\* ------------------------------------------------------------- actions
\* The runtime calls handler, which it can only after the module loaded.
Invoke(i, event) ==
    /\ container.state = "loaded"
    /\ i \in DOMAIN inv
    /\ ~InFlight(inv[i])
    /\ inv[i].deliveries < MaxDeliveries
    /\ inv' = [inv EXCEPT ![i] =
                  HandlerEntry([IdleLocals EXCEPT
                                   !.event = event,
                                   !.deliveries = inv[i].deliveries + 1,
                                   !.after = { j \in DOMAIN inv \ {i} :
                                                 inv[j].pc = "returned" }],
                               event)]
    /\ UNCHANGED <<registry, hook, secretStore, elsewhere>>

SecretReturns(i, answer) ==
    /\ i \in DOMAIN inv
    /\ inv[i].pc = "secret"
    /\ inv' = [inv EXCEPT ![i] =
                  AfterSecret(Locals(inv, i), answer, secretStore)]
    /\ UNCHANGED <<registry, hook, secretStore, elsewhere>>

DescribeReturns(i, answer) ==
    /\ i \in DOMAIN inv
    /\ inv[i].pc = "describe"
    /\ inv' = [inv EXCEPT ![i] = AfterDescribe(Locals(inv, i), answer)]
    /\ UNCHANGED <<registry, hook, secretStore, elsewhere>>

GetServersReturns(i, answer) ==
    /\ i \in DOMAIN inv
    /\ inv[i].pc = "getServers"
    /\ inv' = [inv EXCEPT ![i] =
                  AfterGetServers(Locals(inv, i), answer, registry)]
    /\ UNCHANGED <<registry, hook, secretStore, elsewhere>>

\* The registry answers a deleteServer request: success removes the entry,
\* 404 is the answer for an id it does not hold, any failure leaves the
\* membership alone, and a request that got no answer may or may not have
\* been carried out.
DeleteReturns(i, answer) ==
    /\ i \in DOMAIN inv
    /\ inv[i].pc = "deleteServer"
    /\ LET id == inv[i].deleteBody
           held == id \in IdsOf(registry)
       IN  /\ answer \in {"jsonOk", "legacySuccess"} => held
           /\ answer = "http404" => ~held
           /\ \/ /\ answer \in {"jsonOk", "legacySuccess"}
                    \/ (answer = "networkError" /\ held)
                 /\ registry' = Without(registry, id)
                 /\ inv' = [Interfere(inv, i) EXCEPT
                               ![i] = AfterDelete(Locals(inv, i), answer)]
              \/ /\ answer \notin {"jsonOk", "legacySuccess"}
                 /\ registry' = registry
                 /\ inv' = [inv EXCEPT
                               ![i] = AfterDelete(Locals(inv, i), answer)]
    /\ UNCHANGED <<hook, secretStore, elsewhere>>

\* The scaling controller answers the completion call.  For an instance
\* whose hook is followed it accepts the call only while the hook waits and
\* only under the hook's names, and the accepted result ends the hook.
CompleteReturns(i, answer) ==
    /\ i \in DOMAIN inv
    /\ inv[i].pc = "complete"
    /\ LET c == inv[i].completion
           accepted == c.InstanceId \in DOMAIN hook /\ answer = "ok"
       IN  /\ accepted => /\ hook[c.InstanceId].state = "wait"
                          /\ c.LifecycleHookName = "H"
                          /\ c.AutoScalingGroupName = "G"
           /\ hook' = IF accepted
                      THEN [hook EXCEPT ![c.InstanceId] =
                               [state |-> "done",
                                result |-> c.LifecycleActionResult,
                                by |-> "completion"]]
                      ELSE hook
    /\ inv' = [inv EXCEPT ![i] = AfterComplete(Locals(inv, i), answer)]
    /\ UNCHANGED <<registry, secretStore, elsewhere>>

\* Another process (an operator, another reconciler) deletes an entry.
OtherDelete(k) ==
    /\ k \in DOMAIN registry
    /\ registry' = Without(registry, registry[k].id)
    /\ inv' = Interfere(inv, "none")
    /\ UNCHANGED <<hook, secretStore, elsewhere>>

\* A node's registration agent (`scalelite-bbb-manager register` in the
\* instance's user data) adds an entry.
AgentRegister(server) ==
    /\ Len(registry) < MaxServers
    /\ server.id \notin IdsOf(registry)
    /\ registry' = Append(registry, server)
    /\ inv' = Interfere(inv, "none")
    /\ UNCHANGED <<hook, secretStore, elsewhere>>

\* The Lambda runtime ends an invocation in flight (the function's timeout
\* of 3 minutes, a crash of the execution environment): it takes no further
\* step.
Kill(i) ==
    /\ i \in DOMAIN inv
    /\ InFlight(inv[i])
    /\ inv' = [inv EXCEPT ![i].pc = "killed"]
    /\ UNCHANGED <<registry, hook, secretStore, elsewhere>>

\* heartbeatTimeout: Duration.minutes(5) elapses on a waiting hook: the
\* scaling controller applies the hook's default result.
HeartbeatTimeout(x) ==
    /\ x \in DOMAIN hook
    /\ hook[x].state = "wait"
    /\ hook' = [hook EXCEPT ![x] = [state |-> "done",
                                    result |-> HookDefaultResult,
                                    by |-> "timeout"]]
    /\ UNCHANGED <<registry, inv, secretStore, elsewhere>>

Next ==
    \/ \E i \in Invocations, event \in Events : Invoke(i, event)
    \/ \E i \in Invocations, answer \in SecretAnswers : SecretReturns(i, answer)
    \/ \E i \in Invocations, answer \in DescribeAnswers :
           DescribeReturns(i, answer)
    \/ \E i \in Invocations, answer \in GetServersAnswers :
           GetServersReturns(i, answer)
    \/ \E i \in Invocations, answer \in DeleteAnswers : DeleteReturns(i, answer)
    \/ \E i \in Invocations, answer \in CompleteAnswers :
           CompleteReturns(i, answer)
    \/ \E k \in 1..MaxServers : OtherDelete(k)
    \/ \E server \in ScaleliteServer : AgentRegister(server)

Spec == Init /\ [][Next]_vars

\* Two invocations, each delivered one notification, in any interleaving.
InitPair ==
    /\ registry \in Registries
    /\ inv = [i \in Invocations |->
                 [IdleLocals EXCEPT !.deliveries = MaxDeliveries - 1]]
    /\ hook = [x \in {} |-> WaitingHook]
    /\ Alone

\* The notifications of the scaling controller for the two instances.
Notifications ==
    { e \in Events : e.kind = "object" /\ NotificationValid(e.msg)
                        /\ e.msg.LifecycleHookName = "H"
                        /\ e.msg.AutoScalingGroupName = "G" }

\* The two invocations share nothing but the registry, which no other actor
\* changes; of each external call one failing answer of each kind that the
\* handler tells apart is considered.
NextPair ==
    \/ \E i \in Invocations, event \in Notifications : Invoke(i, event)
    \/ \E i \in Invocations, answer \in {"throws", "ok"} :
           SecretReturns(i, answer)
    \/ \E i \in Invocations, answer \in {"noInstances", "found"} :
           DescribeReturns(i, answer)
    \/ \E i \in Invocations, answer \in {"networkError", "ok"} :
           GetServersReturns(i, answer)
    \/ \E i \in Invocations,
          answer \in {"networkError", "http404", "jsonOk", "otherBody"} :
           DeleteReturns(i, answer)
    \/ \E i \in Invocations, answer \in CompleteAnswers :
           CompleteReturns(i, answer)

SpecPair == InitPair /\ [][NextPair]_vars

\* Secrets Manager rotates the shared secret (once: the new value differs
\* from every earlier one).
Rotate ==
    /\ secretStore = InitialSecret
    /\ secretStore' = RotatedSecret
    /\ UNCHANGED <<registry, inv, hook, elsewhere>>

\* Two invocations in any order or interleaving, and a rotation at any time.
\* What the secret is used for does not depend on how the later calls fail:
\* of those, the answers that let the invocation go on are considered.
NextRotate ==
    \/ \E i \in Invocations, event \in Notifications : Invoke(i, event)
    \/ \E i \in Invocations, answer \in {"throws", "noKey", "ok"} :
           SecretReturns(i, answer)
    \/ \E i \in Invocations : DescribeReturns(i, "found")
    \/ \E i \in Invocations : GetServersReturns(i, "ok")
    \/ \E i \in Invocations, answer \in {"http404", "jsonOk"} :
           DeleteReturns(i, answer)
    \/ \E i \in Invocations : CompleteReturns(i, "ok")
    \/ Rotate

SpecRotate == InitPair /\ [][NextRotate]_vars

\* Lines 31-50: the runtime loads the module in a new execution
\* environment; the environment check throws or the clients are created.
LoadModule ==
    /\ container.state = "cold"
    /\ container' = [container EXCEPT
                        !.state = IF EnvComplete(container.env)
                                  THEN "loaded" ELSE "initError"]
    /\ UNCHANGED <<registry, inv, hook, secretStore, signer, stack>>

\* A new execution environment with any setting of the three variables,
\* and one notification to deliver.
InitColdStart ==
    /\ registry \in Registries
    /\ inv = [i \in {"a"} |->
                 [IdleLocals EXCEPT !.deliveries = MaxDeliveries - 1]]
    /\ hook = [x \in {} |-> WaitingHook]
    /\ secretStore = InitialSecret
    /\ container \in { [env |-> e, state |-> "cold"] : e \in Environments }
    /\ signer = NoSigning
    /\ stack = NoStack

NextColdStart ==
    \/ LoadModule
    \/ Next

SpecColdStart == InitColdStart /\ [][NextColdStart]_vars

\* BbbClusterStackProps as far as the constructor branches on them or the
\* tests set them (useSpotInstances is optional).
StackProps ==
    [useSpotInstances : {"true", "false", "undefined"},
     keyName : {"", "test-key"},
     bbbInstanceType : {"", "t3.small"},
     sshAllowedCidr : {"10.0.0.0/24", "10.0.0.1/32"}]

\* The constructs that the constructor of BbbClusterStack (lines 35-341)
\* creates in the stack, in order, each with the resource type it stands
\* for.  SecretsManagerEndpoint (line 227) is added to props.vpc and is not
\* a construct of this stack.
ConstructorSteps ==
    << [id |-> "CriticalAlarmsTopic",     type |-> "AWS::SNS::Topic"],
       [id |-> "BBB-SG",                  type |-> "AWS::EC2::SecurityGroup"],
       [id |-> "UbuntuAmiParam",          type |-> "AWS::SSM::Parameter"],
       [id |-> "BBBLaunchTemplate",       type |-> "AWS::EC2::LaunchTemplate"],
       [id |-> "BBBASG",
        type |-> "AWS::AutoScaling::AutoScalingGroup"],
       [id |-> "BBBCpuScaling",
        type |-> "AWS::AutoScaling::ScalingPolicy"],
       [id |-> "LifecycleSNSTopic",       type |-> "AWS::SNS::Topic"],
       [id |-> "DeregisterLambdaRole",    type |-> "AWS::IAM::Role"],
       [id |-> "DeregisterLambdaSG",      type |-> "AWS::EC2::SecurityGroup"],
       [id |-> "DeregisterLambdaHandler", type |-> "AWS::Lambda::Function"],
       [id |-> "TerminateHook",
        type |-> "AWS::AutoScaling::LifecycleHook"],
       [id |-> "BBBASGHighCPUAlarm",      type |-> "AWS::CloudWatch::Alarm"],
       [id |-> "DeregisterLambdaErrorsAlarm",
        type |-> "AWS::CloudWatch::Alarm"],
       [id |-> "DeregisterLambdaTimeoutsAlarm",
        type |-> "AWS::CloudWatch::Alarm"] >>

\* Lines 158-178: asgProps.instanceMarketOptions.marketType, "" when the
\* property is not set.
InstanceMarketOptionsOf(props) ==
    IF props.useSpotInstances = "true" THEN "spot" ELSE ""

\* The constructor is called with any props.
InitStack ==
    /\ registry = <<>>
    /\ inv = [i \in {} |-> IdleLocals]
    /\ hook = [x \in {} |-> WaitingHook]
    /\ secretStore = InitialSecret
    /\ container = LoadedContainer
    /\ signer = NoSigning
    /\ stack \in { [NoStack EXCEPT !.props = p] : p \in StackProps }

\* The next construct of the constructor is created; asgProps is complete
\* when the Auto Scaling Group is.
BuildStack ==
    /\ stack.step < Len(ConstructorSteps)
    /\ LET made == ConstructorSteps[stack.step + 1]
       IN  stack' = [stack EXCEPT
                        !.step = @ + 1,
                        !.resources = Append(@, made.type),
                        !.instanceMarketOptions =
                            IF made.id = "BBBASG"
                            THEN InstanceMarketOptionsOf(stack.props)
                            ELSE @]
    /\ UNCHANGED <<registry, inv, hook, secretStore, container, signer>>

NextStack == BuildStack

SpecStack == InitStack /\ [][NextStack]_vars

\* The queryParams objects: at most MaxParams properties, no key twice.
QueryParamObjects ==
    { q \in SeqsUpTo([key : ParamKeys, value : ParamValues], MaxParams) :
          \A j, k \in DOMAIN q : q[j].key = q[k].key => j = k }

\* A call of the two signing functions with any arguments.
InitSign ==
    /\ registry = <<>>
    /\ inv = [i \in {} |-> IdleLocals]
    /\ hook = [x \in {} |-> WaitingHook]
    /\ secretStore = InitialSecret
    /\ container = LoadedContainer
    /\ stack = NoStack
    /\ signer \in { [NoSigning EXCEPT !.queryParams = q, !.action = a,
                                      !.body = b, !.secret = s] :
                        q \in QueryParamObjects,
                        a \in {GET_SERVERS_ACTION, DELETE_SERVER_ACTION},
                        b \in {"", DeleteBodyString("42")},
                        s \in {InitialSecret, RotatedSecret} }

\* Lines 142-143, 172-174 with any arguments: the query string of the
\* parameters, then the checksum over it.
Sign ==
    /\ ~signer.done
    /\ LET query == GetSortedQueryString(signer.queryParams)
       IN  signer' = [signer EXCEPT
                         !.query = query,
                         !.checksum = CalculateChecksum(signer.action, query,
                                                        signer.body,
                                                        signer.secret),
                         !.done = TRUE]
    /\ UNCHANGED <<registry, inv, hook, secretStore, container, stack>>

NextSign == Sign

SpecSign == InitSign /\ [][NextSign]_vars

\* One delivery of a notification whose instance's hook is followed, with
\* an invocation that may be killed.
\* Every external call returns or fails: the AWS SDK calls of lines 102,
\* 118 and 230 settle their promise, and the httpClient of lines 47-50 has a
\* timeout of 15 s, so an invocation waiting at an await is resumed.
Returns(i) ==
    \/ \E answer \in SecretAnswers : SecretReturns(i, answer)
    \/ \E answer \in DescribeAnswers : DescribeReturns(i, answer)
    \/ \E answer \in GetServersAnswers : GetServersReturns(i, answer)
    \/ \E answer \in DeleteAnswers : DeleteReturns(i, answer)
    \/ \E answer \in CompleteAnswers : CompleteReturns(i, answer)

SpecLive == Init /\ [][Next]_vars /\ \A i \in {"a"} : WF_vars(Returns(i))

InitCancel ==
    /\ registry \in Registries
    /\ inv = [i \in {"a"} |->
                 [IdleLocals EXCEPT !.deliveries = MaxDeliveries - 1]]
    /\ hook \in { [x \in {y} |-> WaitingHook] : y \in InstanceIds }
    /\ Alone

NextCancel ==
    \/ Next
    \/ \E i \in Invocations : Kill(i)
    \/ \E x \in InstanceIds : HeartbeatTimeout(x)

SpecCancel == InitCancel /\ [][NextCancel]_vars


\* ------------------------------------------------------------- properties
\* The completion call of the invocation has been sent.
Reported(l) == l.pc \in {"complete", "returned"}

Called(l, name) == Count(l.calls, name) > 0

RegistryCalled(l) == Called(l, "getServers") \/ Called(l, "deleteServer")

\* C1  Fail-safe default: in an invocation where the secret fetch, the
\* getServers call or the deleteServer call threw (any error but a 404 on
\* deleteServer), the completion call is sent with ABANDON and the handler
\* does not throw.
C1_FailSafeDefault ==
    \A i \in DOMAIN inv :
        LET l == inv[i]
        IN  (\/ l.secretAnswer = "throws"
             \/ AxiosThrows(l.getServersAnswer)
             \/ (AxiosThrows(l.deleteAnswer) /\ l.deleteAnswer # "http404"))
            => /\ Reported(l)
               /\ l.completion.LifecycleActionResult = "ABANDON"

C1_Witness ==
    \E i \in DOMAIN inv :
        /\ inv[i].deleteAnswer = "http500"
        /\ inv[i].pc = "returned"
        /\ inv[i].completion.LifecycleActionResult = "ABANDON"

\* C2  CONTINUE soundness: if the handler reports CONTINUE for an instance
\* whose identity resolved to apiURL, and no other actor changed the
\* registry during the invocation, the registry holds no entry whose url
\* equals apiURL.
C2_ContinueSoundness ==
    \A i \in DOMAIN inv :
        LET l == inv[i]
        IN  (/\ Reported(l)
             /\ l.completion.LifecycleActionResult = "CONTINUE"
             /\ l.bbbServerApiUrl # ""
             /\ ~l.interfered)
            => \A k \in DOMAIN registry : registry[k].url # l.bbbServerApiUrl

\* C3  Every invocation whose SNS message parses as JSON attempts the
\* completion call exactly once, as its last external call.
C3_CompletionExactlyOnce ==
    \A i \in DOMAIN inv :
        LET l == inv[i]
        IN  (/\ l.event.kind \in {"null", "primitive", "object"}
             /\ l.pc \in {"returned", "rejected"})
            => /\ Count(l.calls, "CompleteLifecycleAction") = 1
               /\ l.calls[Len(l.calls)] = "CompleteLifecycleAction"

\* C4  No exception escapes the handler for any event, and the handler
\* reaches the report-outcome step.
C4_NoExceptionEscapes ==
    \A i \in DOMAIN inv :
        /\ inv[i].pc # "rejected"
        /\ inv[i].pc = "returned" =>
               Called(inv[i], "CompleteLifecycleAction")

C6_SecretUnavailableAbandons ==
    \A i \in DOMAIN inv :
        LET l == inv[i]
        IN  l.secretAnswer \in {"throws", "noSecretString", "noKey"}
            => /\ Reported(l)
               /\ l.completion.LifecycleActionResult = "ABANDON"
               /\ ~Called(l, "DescribeInstances")
               /\ ~RegistryCalled(l)

C6_Witness ==
    \E i \in DOMAIN inv :
        /\ inv[i].secretAnswer = "noKey"
        /\ inv[i].pc = "returned"

\* C7  When getServers fails (network error or timeout, a status other
\* than 200, or a body whose status is not "ok"), ABANDON is reported and
\* deleteServer is never called.
C7_GetServersFailureAbandons ==
    \A i \in DOMAIN inv :
        LET l == inv[i]
        IN  l.getServersAnswer \in
                {"networkError", "http500", "http204", "statusError"}
            => /\ Reported(l)
               /\ l.completion.LifecycleActionResult = "ABANDON"
               /\ ~Called(l, "deleteServer")

C7_Witness ==
    \E i \in DOMAIN inv :
        /\ inv[i].getServersAnswer = "statusError"
        /\ inv[i].pc = "returned"
        /\ \E k \in DOMAIN registry :
               registry[k].url = inv[i].bbbServerApiUrl

\* C8  When getServers succeeds and no listed entry has the url apiURL,
\* CONTINUE is reported and no deleteServer call is issued.
C8_NoMatchContinues ==
    \A i \in DOMAIN inv :
        LET l == inv[i]
        IN  (l.getServersAnswer = "ok" /\ l.matches = <<>>)
            => /\ Reported(l)
               /\ l.completion.LifecycleActionResult = "CONTINUE"
               /\ ~Called(l, "deleteServer")

\* A non-empty listing (the registry has not changed since) without a match.
C8_Witness ==
    \E i \in DOMAIN inv :
        /\ inv[i].getServersAnswer = "ok"
        /\ inv[i].matches = <<>>
        /\ inv[i].pc = "returned"
        /\ ~inv[i].interfered
        /\ Len(registry) = MaxServers

\* C9  Normal deregistration: when an entry matches and deleteServer
\* answers 200 with status "ok" or with the legacy SUCCESS string, exactly
\* one deleteServer call was issued, with the id of the matched entry, and
\* the completion call carries CONTINUE.
C9_NormalDeregistration ==
    \A i \in DOMAIN inv :
        LET l == inv[i]
        IN  l.deleteAnswer \in {"jsonOk", "legacySuccess"}
            => /\ Count(l.calls, "deleteServer") = 1
               /\ l.matches # <<>>
               /\ l.deleteBody = l.matches[1].id
               /\ Reported(l)
               /\ l.completion.LifecycleActionResult = "CONTINUE"

C9_Witness ==
    \E i \in DOMAIN inv :
        /\ inv[i].deleteAnswer = "legacySuccess"
        /\ inv[i].pc = "returned"
        /\ inv[i].deleteBody = "42"

\* C10  404-as-success: when deleteServer for the matched id fails with
\* HTTP 404, CONTINUE is reported, not ABANDON.
C10_NotFoundIsSuccess ==
    \A i \in DOMAIN inv :
        LET l == inv[i]
        IN  l.deleteAnswer = "http404"
            => /\ Reported(l)
               /\ l.completion.LifecycleActionResult = "CONTINUE"

C10_Witness ==
    \E i \in DOMAIN inv :
        /\ inv[i].deleteAnswer = "http404"
        /\ inv[i].pc = "returned"
        /\ inv[i].interfered


\* C11  When deleteServer for the matched id is unreachable or rejected
\* (network error, timeout, a status outside 2xx other than 404, or a 200
\* answer whose body is neither status "ok" nor the legacy SUCCESS string),
\* ABANDON is reported.
C11_DeleteFailureAbandons ==
    \A i \in DOMAIN inv :
        LET l == inv[i]
        IN  l.deleteAnswer \in {"networkError", "http500", "otherBody",
                                "nullBody"}
            => /\ Reported(l)
               /\ l.completion.LifecycleActionResult = "ABANDON"

C11_Witness ==
    \E i \in DOMAIN inv :
        /\ inv[i].deleteAnswer = "otherBody"
        /\ inv[i].pc = "returned"
        /\ inv[i].completeAnswer = "ok"

\* C12  Matching correctness: the id sent to deleteServer is the id of an
\* entry listed by this invocation's getServers whose url is exactly
\* "http://" + privateDnsName + "/bigbluebutton/api"; an entry whose url
\* differs in any way is never the target of the invocation's delete.
C12_MatchingCorrectness ==
    \A i \in DOMAIN inv :
        LET l == inv[i]
            url == "http://" \o PrivateDnsNameOf(l.instanceId)
                       \o "/bigbluebutton/api"
        IN  Called(l, "deleteServer")
            => /\ \E k \in DOMAIN l.matches :
                      /\ l.matches[k].id = l.deleteBody
                      /\ l.matches[k].url = url
               /\ (l.pc = "deleteServer" /\ ~l.interfered)
                      => \A k \in DOMAIN registry :
                             registry[k].url # url
                                 => registry[k].id # l.deleteBody

\* A delete is pending while the registry also lists a near miss of the url.
C12_Witness ==
    \E i \in DOMAIN inv :
        /\ inv[i].pc = "deleteServer"
        /\ ~inv[i].interfered
        /\ \E k \in DOMAIN registry :
               /\ registry[k].url # inv[i].bbbServerApiUrl
               /\ LooseUrl(registry[k].url) = inv[i].bbbServerApiUrl

\* C14  Step ordering: the external calls of an invocation are issued in
\* the order secret fetch, inventory lookup, getServers, deleteServer,
\* completion report; a step is started only after every earlier step
\* returned successfully, except the report, which comes last; at most one
\* call is pending at a time.
StepOrder == <<"GetSecretValue", "DescribeInstances", "getServers",
               "deleteServer">>

IsPrefix(s, t) == Len(s) <= Len(t) /\ \A k \in DOMAIN s : s[k] = t[k]

Pending(l) ==
    Len(l.calls)
      - Cardinality({ a \in {l.secretAnswer} : a # "" })
      - Cardinality({ a \in {l.describeAnswer} : a # "" })
      - Cardinality({ a \in {l.getServersAnswer} : a # "" })
      - Cardinality({ a \in {l.deleteAnswer} : a # "" })
      - Cardinality({ a \in {l.completeAnswer} : a # "" })

C14_StepOrdering ==
    \A i \in DOMAIN inv :
        LET l == inv[i]
            steps == IF Called(l, "CompleteLifecycleAction")
                     THEN SubSeq(l.calls, 1, Len(l.calls) - 1)
                     ELSE l.calls
        IN  /\ IsPrefix(steps, StepOrder)
            /\ Called(l, "DescribeInstances") => l.secretAnswer = "ok"
            /\ Called(l, "getServers") => l.describeAnswer = "found"
            /\ Called(l, "deleteServer") => l.getServersAnswer = "ok"
            /\ Called(l, "CompleteLifecycleAction") =>
                   Pending(l) = (IF l.pc = "complete" THEN 1 ELSE 0)
            /\ Pending(l) \in {0, 1}

C14_Witness ==
    \E i \in DOMAIN inv :
        /\ inv[i].pc = "returned"
        /\ inv[i].calls = StepOrder \o <<"CompleteLifecycleAction">>

\* C15  The completion call carries the LifecycleHookName,
\* AutoScalingGroupName and EC2InstanceId of the notification handled, and
\* the outcome the invocation reached, CONTINUE or ABANDON.
C15_CompletionParameters ==
    \A i \in DOMAIN inv :
        LET l == inv[i]
        IN  Called(l, "CompleteLifecycleAction")
            => /\ l.completion.LifecycleHookName =
                      l.event.msg.LifecycleHookName
               /\ l.completion.AutoScalingGroupName =
                      l.event.msg.AutoScalingGroupName
               /\ l.completion.InstanceId = l.event.msg.EC2InstanceId
               /\ l.completion.LifecycleActionResult = l.lifecycleActionResult
               /\ l.lifecycleActionResult \in {"CONTINUE", "ABANDON"}

C15_Witness ==
    \E i \in DOMAIN inv :
        /\ inv[i].pc = "returned"
        /\ inv[i].completion =
               [LifecycleHookName |-> "H", AutoScalingGroupName |-> "G",
                LifecycleActionResult |-> "CONTINUE", InstanceId |-> "i-2"]

\* C16  When the completion call fails, the handler does not send it
\* again, keeps the outcome, makes no further external call and returns.
C16_CompletionFailureNotRetried ==
    \A i \in DOMAIN inv :
        LET l == inv[i]
        IN  l.completeAnswer = "throws"
            => /\ l.pc = "returned"
               /\ Count(l.calls, "CompleteLifecycleAction") = 1
               /\ l.calls[Len(l.calls)] = "CompleteLifecycleAction"
               /\ l.lifecycleActionResult =
                      l.completion.LifecycleActionResult

C16_Witness ==
    \E i \in DOMAIN inv :
        /\ inv[i].completeAnswer = "throws"
        /\ inv[i].pc = "returned"
        /\ inv[i].lifecycleActionResult = "CONTINUE"

\* C17  No local retries: within one invocation the secret fetch, the
\* inventory lookup, getServers and deleteServer are each issued at most
\* once, whatever their result.
C17_NoLocalRetries ==
    \A i \in DOMAIN inv :
        \A k \in DOMAIN StepOrder : Count(inv[i].calls, StepOrder[k]) <= 1

C17_Witness ==
    \E i \in DOMAIN inv :
        /\ inv[i].pc = "returned"
        /\ inv[i].secretAnswer = "throws"
        /\ Count(inv[i].calls, "GetSecretValue") = 1


\* C20  Cancellation fail-safe: an invocation killed before its completion
\* call was sent never makes one, and the hook of its instance is not ended
\* with CONTINUE: it ends only by its heartbeat timeout, with the default
\* result ABANDON.
C20_CancellationFailSafe ==
    /\ [](\A i \in DOMAIN inv :
            LET l == inv[i]
            IN  (/\ l.pc = "killed"
                 /\ ~Called(l, "CompleteLifecycleAction")
                 /\ l.instanceId \in DOMAIN hook)
                => /\ hook[l.instanceId].result # "CONTINUE"
                   /\ hook[l.instanceId].state = "done"
                          => /\ hook[l.instanceId].by = "timeout"
                             /\ hook[l.instanceId].result = "ABANDON")
    /\ [][\A i \in DOMAIN inv :
            (inv[i].pc = "killed"
                 /\ ~Called(inv[i], "CompleteLifecycleAction"))
            => inv'[i] = inv[i]]_vars

\* An invocation killed while its deleteServer call was pending, and the
\* hook ended by its timeout.
C20_Witness ==
    \E i \in DOMAIN inv :
        /\ inv[i].pc = "killed"
        /\ inv[i].calls = StepOrder
        /\ inv[i].instanceId \in DOMAIN hook
        /\ hook[inv[i].instanceId].state = "done"


\* ------------------------------------------------------------- two invocations
\* The answers the handler needs to get through a step were given.
AnsweredWell(l) ==
    /\ l.secretAnswer = "ok"
    /\ l.describeAnswer = "found"
    /\ l.getServersAnswer = "ok"
    /\ l.deleteAnswer \in {"", "jsonOk", "legacySuccess", "http404"}

\* C13  Idempotence under redelivery: when the handler runs twice in
\* sequence for the same instanceId (every call of the second run answered,
\* nobody else changing the registry) and the first run deleted the entry
\* successfully, both runs report CONTINUE and the second takes the
\* no-match branch (line 164) and issues no deleteServer call.
C13_IdempotentRedelivery ==
    \A a, b \in DOMAIN inv :
        (/\ a \in inv[b].after
         /\ inv[a].instanceId = inv[b].instanceId
         /\ inv[a].deleteAnswer \in {"jsonOk", "legacySuccess"}
         /\ AnsweredWell(inv[b])
         /\ ~inv[b].interfered
         /\ Reported(inv[b]))
        => /\ inv[a].completion.LifecycleActionResult = "CONTINUE"
           /\ inv[b].completion.LifecycleActionResult = "CONTINUE"
           /\ inv[b].scaleliteInternalServerId = ""
           /\ ~Called(inv[b], "deleteServer")

\* C18  Concurrent redelivery: when two invocations for the same
\* notification interleave (every call answered, the registry answering
\* 404 for an id already gone), both report CONTINUE, no entry with the
\* instance's url is left, and no other entry was the target of a delete.
C18_ConcurrentRedelivery ==
    \A a, b \in DOMAIN inv :
        (/\ a # b
         /\ inv[a].event = inv[b].event
         /\ AnsweredWell(inv[a]) /\ AnsweredWell(inv[b])
         /\ Reported(inv[a]) /\ Reported(inv[b]))
        => /\ inv[a].completion.LifecycleActionResult = "CONTINUE"
           /\ inv[b].completion.LifecycleActionResult = "CONTINUE"
           /\ \A k \in DOMAIN registry :
                  registry[k].url # inv[a].bbbServerApiUrl
           /\ \A i \in {a, b} :
                  Called(inv[i], "deleteServer") =>
                      inv[i].deleteBody \in IdsOf(inv[i].matches)

\* The handler run by itself on the notification and the answers that the
\* invocation l received, the listing reduced to the entries of its own url.
RanAlone(l) ==
    LET s0 == HandlerEntry([IdleLocals EXCEPT !.event = l.event,
                                              !.deliveries = l.deliveries,
                                              !.after = l.after],
                           l.event)
        s1 == IF l.secretAnswer = "" THEN s0
              ELSE AfterSecret(s0, l.secretAnswer, l.sharedSecret)
        s2 == IF l.describeAnswer = "" THEN s1
              ELSE AfterDescribe(s1, l.describeAnswer)
        s3 == IF l.getServersAnswer = "" THEN s2
              ELSE AfterGetServers(s2, l.getServersAnswer, l.matches)
        s4 == IF l.deleteAnswer = "" THEN s3
              ELSE AfterDelete(s3, l.deleteAnswer)
    IN  IF l.completeAnswer = "" THEN s4
        ELSE AfterComplete(s4, l.completeAnswer)

OwnUrl(l) == BbbServerApiUrl(PrivateDnsNameOf(l.instanceId))

DistinctInstances(i, j) ==
    /\ i # j
    /\ inv[i].instanceId \in InstanceIds
    /\ inv[j].instanceId \in InstanceIds
    /\ inv[i].instanceId # inv[j].instanceId

\* What an invocation holds besides the record of who touched the registry.
Own(l) == [l EXCEPT !.interfered = FALSE]

C19_Outcomes ==
    \A i, j \in DOMAIN inv :
        DistinctInstances(i, j) =>
            /\ Reported(inv[i]) =>
                   /\ inv[i].completion = RanAlone(inv[i]).completion
                   /\ inv[i].calls = RanAlone(inv[i]).calls
            /\ Called(inv[i], "deleteServer") =>
                   \E k \in DOMAIN inv[i].matches :
                       /\ inv[i].matches[k].id = inv[i].deleteBody
                       /\ inv[i].matches[k].url = OwnUrl(inv[i])
                       /\ inv[i].matches[k].url # OwnUrl(inv[j])

C19_OneAtATime ==
    \A i, j \in DOMAIN inv :
        (i # j /\ Own(inv'[i]) # Own(inv[i])) => Own(inv'[j]) = Own(inv[j])

C21_Fetched ==
    \A i \in DOMAIN inv :
        LET l == inv[i]
        IN  /\ (l.pc # "idle" /\ l.event.kind = "object"
                  /\ NotificationValid(l.event.msg))
                => /\ Count(l.calls, "GetSecretValue") = 1
                   /\ l.calls[1] = "GetSecretValue"
            /\ RegistryCalled(l) => (l.secretAnswer = "ok" /\ l.sharedSecret # "")
            /\ Called(l, "getServers")
                => l.getServersChecksum =
                       Sha1Hex("getServers" \o l.sharedSecret)
            /\ Called(l, "deleteServer")
                => l.deleteChecksum =
                       Sha1Hex("deleteServer" \o "{\"id\":\"" \o l.deleteBody
                                   \o "\"}" \o l.sharedSecret)

C21_Fresh ==
    \A i \in DOMAIN inv :
        /\ (inv[i].pc = "secret" /\ inv'[i].pc = "describe")
               => inv'[i].sharedSecret = secretStore
        /\ inv'[i].deliveries # inv[i].deliveries
               => inv'[i].sharedSecret = ""
        /\ (inv[i].sharedSecret # "" /\ inv'[i].deliveries = inv[i].deliveries)
               => inv'[i].sharedSecret = inv[i].sharedSecret

\* C21  The shared secret is fetched once, as the first call, in every
\* invocation whose notification passes validation, and before any registry
\* request; both checksums hash the value held by that invocation, which is
\* the value the store held when this invocation's fetch was answered and
\* stays the same to its end; an invocation starts without a secret, so
\* after a rotation the next invocation signs with the new value.
C21_SecretFreshness == [] C21_Fetched /\ [][C21_Fresh]_vars

\* An invocation signed its delete with the first value; the one that began
\* after it had returned signed with the rotated value.
C21_Witness ==
    \E a, b \in DOMAIN inv :
        /\ a \in inv[b].after
        /\ inv[a].deleteChecksum =
               Sha1Hex("deleteServer" \o DeleteBodyString(inv[a].deleteBody)
                           \o InitialSecret)
        /\ inv[b].pc = "returned"
        /\ inv[b].deleteChecksum =
               Sha1Hex("deleteServer" \o DeleteBodyString(inv[b].deleteBody)
                           \o RotatedSecret)

\* ------------------------------------------------------------- checksums
\* The objects with the properties of queryParams in another insertion order.
Reorderings(queryParams) ==
    LET n == Len(queryParams)
    IN  { [k \in 1..n |-> queryParams[f[k]]] :
              f \in { g \in [1..n -> 1..n] :
                          \A j, k \in 1..n : g[j] = g[k] => j = k } }

\* The keys of queryParams, each once, smaller keys first.
Ascending(queryParams) ==
    LET n == Len(queryParams)
        keys == { queryParams[k].key : k \in 1..n }
    IN  CHOOSE s \in [1..n -> keys] :
            \A j, k \in 1..n : j < k => KeyRank(s[j]) < KeyRank(s[k])

\* C22  Checksum determinism: the query string is the same for every
\* insertion order of the same properties, lists the keys in ascending
\* order (name=value joined by "&"), and is empty for no parameters; the
\* checksum is the digest of action + query string + body + secret in that
\* order, so it too is the same for every insertion order.
C22_ChecksumDeterminism ==
    signer.done =>
        /\ \A q \in Reorderings(signer.queryParams) :
               /\ GetSortedQueryString(q) = signer.query
               /\ CalculateChecksum(signer.action, GetSortedQueryString(q),
                                    signer.body, signer.secret)
                      = signer.checksum
        /\ signer.queryParams = <<>> => signer.query = ""
        /\ signer.query =
               Serialize(signer.queryParams, Ascending(signer.queryParams))
        /\ signer.checksum =
               Sha1Hex(signer.action \o signer.query \o signer.body
                           \o signer.secret)

\* Parameters given in descending key order, with a value that is encoded.
C22_Witness ==
    /\ signer.done
    /\ Len(signer.queryParams) >= 2
    /\ KeyRank(signer.queryParams[1].key) > KeyRank(signer.queryParams[2].key)
    /\ signer.queryParams[1].value = "a&b"
    /\ signer.body # ""

\* ------------------------------------------------------------- start-up
\* C23  ConfigurationError is fatal at startup: when SCALELITE_API_BASE_URL,
\* SHARED_SECRET_ARN or AWS_REGION is unset or empty, loading the module
\* ends in an initialisation error, never in a loaded module, and handler
\* is not run: no invocation starts and no external call is made.
C23_ConfigurationErrorFatal ==
    (\E name \in DOMAIN container.env : container.env[name] \in {"unset", ""})
        => /\ container.state \in {"cold", "initError"}
           /\ \A i \in DOMAIN inv :
                  /\ inv[i].pc = "idle"
                  /\ inv[i].calls = <<>>
                  /\ inv[i].completion = NoCompletion

\* The module failed to load with only AWS_REGION empty.
C23_Witness ==
    /\ container.state = "initError"
    /\ container.env = [DeployedEnv EXCEPT !.AWS_REGION = ""]

\* ------------------------------------------------------------- the cluster stack
\* C25  For every value of useSpotInstances the finished stack holds
\* exactly one Auto Scaling Group, one launch template, two security
\* groups, one lifecycle hook, one Lambda function and one SNS topic.
C25_ResourceCounts ==
    stack.step = Len(ConstructorSteps) =>
        /\ Count(stack.resources, "AWS::AutoScaling::AutoScalingGroup") = 1
        /\ Count(stack.resources, "AWS::EC2::LaunchTemplate") = 1
        /\ Count(stack.resources, "AWS::EC2::SecurityGroup") = 2
        /\ Count(stack.resources, "AWS::AutoScaling::LifecycleHook") = 1
        /\ Count(stack.resources, "AWS::Lambda::Function") = 1
        /\ Count(stack.resources, "AWS::SNS::Topic") = 1

\* ------------------------------------------------------------- registration
\* C26  Registry consistency under concurrent registration: whenever an
\* invocation (whose listing held at most one entry of the instance's url,
\* with an id) sends a CONTINUE report, the registry holds at that moment no
\* entry whose url is the terminating instance's apiURL, whatever a
\* registration agent added in the meantime.
C26_RegistrationRace ==
    [][\A i \in DOMAIN inv :
          (/\ inv[i].pc # "complete"
           /\ inv'[i].pc = "complete"
           /\ inv'[i].completion.LifecycleActionResult = "CONTINUE"
           /\ inv'[i].bbbServerApiUrl # ""
           /\ Len(inv'[i].matches) <= 1
           /\ "" \notin IdsOf(inv'[i].matches))
          => \A k \in DOMAIN registry' :
                 registry'[k].url # inv'[i].bbbServerApiUrl]_vars

\* C27  A match is never treated as absence: an invocation whose getServers
\* answer listed an entry with the url apiURL, whatever its id, has issued
\* a deleteServer call when it reports CONTINUE.
C27_MatchNeverAbsence ==
    \A i \in DOMAIN inv :
        LET l == inv[i]
        IN  (/\ Reported(l)
             /\ l.completion.LifecycleActionResult = "CONTINUE"
             /\ l.matches # <<>>)
            => Called(l, "deleteServer")

C29_Empty ==
    \A i \in DOMAIN inv :
        (/\ inv[i].pc = "getServers"
         /\ inv'[i].getServersAnswer = "ok"
         /\ registry = <<>>)
        => /\ inv'[i].pc = "complete"
           /\ inv'[i].completion.LifecycleActionResult = "CONTINUE"
           /\ ~Called(inv'[i], "deleteServer")

C29_Missing ==
    \A i \in DOMAIN inv :
        LET l == inv[i]
        IN  l.getServersAnswer = "noServers"
            => /\ Reported(l)
               /\ l.completion.LifecycleActionResult = "ABANDON"
               /\ ~Called(l, "deleteServer")

C29_EmptyVersusMissing == [] C29_Missing /\ [][C29_Empty]_vars

C29_Witness ==
    /\ registry = <<>>
    /\ \E i \in DOMAIN inv :
           /\ inv[i].getServersAnswer = "ok"
           /\ inv[i].matches = <<>>
           /\ ~inv[i].interfered
           /\ inv[i].pc = "returned"
           /\ inv[i].completion.LifecycleActionResult = "CONTINUE"

\* ------------------------------------------------------------- termination
\* An invocation was started with a message that parses as JSON.
C30_Started(l) ==
    l.pc # "idle" /\ l.event.kind \in {"null", "primitive", "object"}

C30_Pending == \E i \in DOMAIN inv : C30_Started(inv[i])

C30_Finished ==
    \A i \in DOMAIN inv :
        C30_Started(inv[i])
        => /\ inv[i].pc = "returned"
           /\ Called(inv[i], "CompleteLifecycleAction")

\* C30  Termination: when every external call eventually returns or fails,
\* every invocation with a parsable notification eventually attempts the
\* completion call and then finishes.
C30_Termination == C30_Pending ~> C30_Finished

=============================================================================
